---- MODULE Spec2Model ----
(***************************************************************************)
(* A model of confix (lib/confix/__init__.py): the generic type factory    *)
(* with its memoization cache, the record (Struct) runtime with its shared *)
(* schema, and the type-directed conversion of untyped trees.              *)
(*                                                                         *)
(* Groups of variables, one per part of the library; a specification       *)
(* of one part leaves the variables of the other parts at their initial    *)
(* values.                                                                 *)
(***************************************************************************)
EXTENDS Integers, Sequences, FiniteSets, TLC

VARIABLES
    \* --- generic type factory ---
    types,            \* the type objects that exist, by identity (index)
    _generic_cache,   \* the module-level dict: key -> type object
    pc,               \* per thread: position inside List()/Map()
    args,             \* per thread: the cache key of the call in progress
    local_t,          \* per thread: the local variable t of List()/Map()
    log,              \* the calls that returned: <<key, returned type>>
    \* --- Python runtime ---
    dict_order,       \* the order in which dicts hand out their keys
    heap,             \* the List/Map objects that are shared by reference
    \* --- record runtime ---
    insts,            \* the Struct instances that exist, each with its _attrs
    last,             \* the operation that ran last, with what it returned or raised
    \* --- conversion ---
    conv,             \* a value on its way to an untyped tree and back
    \* --- classes ---
    _translation_data, \* the dict that Struct._translation_data names
    declared,         \* the schemas of the classes that class statements created
    \* --- protobuf: the global loader ---
    _loader,          \* protobuf._loader
    _roots            \* protobuf._roots

cacheVars == <<types, _generic_cache, pc, args, local_t, log>>

pyVars == <<dict_order, heap>>

recVars == <<insts, last>>

convVars == <<conv>>

classVars == <<_translation_data, declared>>

loaderVars == <<_loader, _roots>>

vars == <<cacheVars, pyVars, recVars, convVars, classVars, loaderVars>>

(***************************************************************************)
(* Bounds of the model.                                                    *)
(***************************************************************************)
MaxTypes == 2       \* generic type objects created in one run
MaxCalls == 4       \* calls of List()/Map() that return in one run
NumThreads == 2     \* threads calling the factory concurrently
MaxInsts == 2       \* Struct instances constructed in one run
MaxObjs == 2        \* List objects in one run, the schema defaults included
MaxLen == 1         \* elements of a List object
MaxKeys == 2        \* keys of an untyped dict handed to the type inference
MaxItems == 2       \* items of an untyped list handed to List.convert
MaxKwargs == 2      \* keyword arguments of one constructor call

Threads == 1..NumThreads
MainThread == 1

(***************************************************************************)
(* Type objects.  The builtin scalar types int and str are the first two   *)
(* objects; every call of type(...) appends a new object, whose identity   *)
(* is its index.                                                           *)
(***************************************************************************)
NumBuiltin == 2

BuiltinTypes ==
    << [base |-> "int", params |-> <<>>], [base |-> "str", params |-> <<>>] >>

TypeIds == 1..Len(types)

ListKey(elem_type) == [base |-> "ListBase", params |-> <<elem_type>>]

MapKey(key_type, val_type) == [base |-> "MapBase", params |-> <<key_type, val_type>>]

NoKey == [base |-> "none", params |-> <<>>]

NoType == 0

CacheIdle ==
    /\ types = BuiltinTypes
    /\ _generic_cache = <<>>
    /\ pc = [th \in Threads |-> "idle"]
    /\ args = [th \in Threads |-> NoKey]
    /\ local_t = [th \in Threads |-> NoType]
    /\ log = <<>>

\* dict lookup: the KeyError branch is taken when the key is not in the dict
CacheHas(key) == key \in DOMAIN _generic_cache

\* a store that is lost: the created type is returned but never remembered
CacheStoreLost(cache, key, t) == cache

\* a store that forgets every other key
CacheStoreEvicting(cache, key, t) == [k \in {key} |-> t]

\* _generic_cache[key] = t
CacheStore(cache, key, t) ==
    [k \in (DOMAIN cache) \cup {key} |-> IF k = key THEN t ELSE cache[k]]

\* The bounds on a run: a call starts only while the run's bound on calls is not
\* reached, and only when it will hit the cache or a type object is left for it.
CanCall(th, key) ==
    /\ pc[th] = "idle"
    /\ Len(log) + Cardinality({o \in Threads : pc[o] # "idle"}) < MaxCalls
    /\ \/ CacheHas(key)
       \/ Len(types) + Cardinality({o \in Threads : pc[o] \in {"lookup", "create"}})
              < NumBuiltin + MaxTypes

\* List(elem_type): entry
List(th, elem_type) ==
    /\ CanCall(th, ListKey(elem_type))
    /\ pc' = [pc EXCEPT ![th] = "lookup"]
    /\ args' = [args EXCEPT ![th] = ListKey(elem_type)]
    /\ UNCHANGED <<types, _generic_cache, local_t, log, pyVars, recVars, convVars, classVars, loaderVars>>

\* Map(key_type, val_type): entry
Map(th, key_type, val_type) ==
    /\ CanCall(th, MapKey(key_type, val_type))
    /\ pc' = [pc EXCEPT ![th] = "lookup"]
    /\ args' = [args EXCEPT ![th] = MapKey(key_type, val_type)]
    /\ UNCHANGED <<types, _generic_cache, local_t, log, pyVars, recVars, convVars, classVars, loaderVars>>

\* try: return _generic_cache[key]
CacheLookupHit(th) ==
    /\ pc[th] = "lookup"
    /\ CacheHas(args[th])
    /\ log' = Append(log, [key |-> args[th], type |-> _generic_cache[args[th]]])
    /\ pc' = [pc EXCEPT ![th] = "idle"]
    /\ args' = [args EXCEPT ![th] = NoKey]
    /\ UNCHANGED <<types, _generic_cache, local_t, pyVars, recVars, convVars, classVars, loaderVars>>

\* except KeyError: (the key was not there when this thread looked)
CacheLookupMiss(th) ==
    /\ pc[th] = "lookup"
    /\ ~CacheHas(args[th])
    /\ pc' = [pc EXCEPT ![th] = "create"]
    /\ UNCHANGED <<types, _generic_cache, args, local_t, log, pyVars, recVars, convVars, classVars, loaderVars>>

\* type('ListOf<...>', (ListBase,), {...}): a new type object
CreateType(th) ==
    /\ pc[th] = "create"
    /\ types' = Append(types, args[th])
    /\ local_t' = [local_t EXCEPT ![th] = Len(types) + 1]
    /\ pc' = [pc EXCEPT ![th] = "store"]
    /\ UNCHANGED <<_generic_cache, args, log, pyVars, recVars, convVars, classVars, loaderVars>>

\* _generic_cache[key] = t = (...); return t
CachePublish(th) ==
    /\ pc[th] = "store"
    /\ _generic_cache' = CacheStore(_generic_cache, args[th], local_t[th])
    /\ log' = Append(log, [key |-> args[th], type |-> local_t[th]])
    /\ pc' = [pc EXCEPT ![th] = "idle"]
    /\ args' = [args EXCEPT ![th] = NoKey]
    /\ local_t' = [local_t EXCEPT ![th] = NoType]
    /\ UNCHANGED <<types, pyVars, recVars, convVars, classVars, loaderVars>>

(***************************************************************************)
(* Python values.  A value is a record tagged t: scalars, the untyped      *)
(* list and dict of a parsed JSON/YAML tree, the typed List<T>, Map<K,V>   *)
(* and Struct objects, and the exceptions an operation ends with.  In the  *)
(* conversion functions a type is written structurally (with sequential    *)
(* calls the factory returns one type object per parameterization).        *)
(***************************************************************************)
PyInt(n) == [t |-> "int", v |-> n]

PyStr(str) == [t |-> "str", v |-> str]

PyList(elems) == [t |-> "list", v |-> elems]

PyDict(items) == [t |-> "dict", v |-> items]

ListObj(cls, elems) == [t |-> "List", type |-> cls, v |-> elems]

MapObj(cls, items) == [t |-> "Map", type |-> cls, v |-> items]

StructObj(cls, attrs) == [t |-> "Struct", type |-> cls, v |-> attrs]

\* a reference to the List/Map object heap[id]; an object that is written as
\* a ListObj/MapObj value is one that nothing else refers to
Ref(id) == [t |-> "ref", v |-> id]

Deref(val) == IF val.t = "ref" THEN heap[val.v] ELSE val

\* what a function without a return statement returns
None == [t |-> "None"]

TypeError == [t |-> "TypeError"]

AttributeError == [t |-> "AttributeError"]

IsError(val) == val.t \in {"TypeError", "AttributeError"}

IntT == [k |-> "int"]

StrT == [k |-> "str"]

ListT(elem_type) == [k |-> "List", elem |-> elem_type]

MapT(key_type, val_type) == [k |-> "Map", key |-> key_type, val |-> val_type]

StructT(name) == [k |-> "Struct", name |-> name]

NoneT == [k |-> "None"]

NoDefault == [t |-> "NoDefault"]

Undefined == [t |-> "Undefined"]

FieldDef(type, default) == [type |-> type, default |-> default]

(***************************************************************************)
(* The order in which a Python dict hands out its keys is not fixed by the *)
(* language: dict_order picks it for a run.  The names and keys that occur *)
(* are ranked by their place in NameOrder.                                 *)
(***************************************************************************)
NameOrder == <<"a", "b", "inner", "l", "u", "x", "_p", "k-1", "a\n">>

NameRank(name) == CHOOSE i \in 1..Len(NameOrder) : NameOrder[i] = name

KeyRank(key) == IF key.t = "int" THEN key.v ELSE Len(NameOrder) + NameRank(key.v)

Earlier(r1, r2) == IF dict_order = "asc" THEN r1 <= r2 ELSE r1 >= r2

\* the first of the dict keys S that iteritems() yields
FirstKey(S) == CHOOSE n \in S : \A o \in S : Earlier(KeyRank(n), KeyRank(o))

Min(S) == CHOOSE n \in S : \A o \in S : n <= o

(***************************************************************************)
(* The record types of the model, as their class bodies declare them.      *)
(***************************************************************************)
StructNames == {"Struct", "LooseStruct", "TestStruct", "TypeWithLists", "JsonTestStruct",
                "Outer"}

ClassBody(cls) ==
    CASE cls = "TestStruct" ->
             [a |-> FieldDef(IntT, PyInt(100)), u |-> FieldDef(IntT, Undefined)]
      [] cls = "TypeWithLists" ->
             [l |-> FieldDef(ListT(StrT), PyList(<<>>))]
      [] cls = "JsonTestStruct" ->
             [a |-> FieldDef(IntT, NoDefault), b |-> FieldDef(StrT, NoDefault)]
      [] cls = "Outer" ->
             [inner |-> FieldDef(StructT("JsonTestStruct"), NoDefault),
              l |-> FieldDef(ListT(IntT), NoDefault)]
      [] OTHER -> <<>>

\* a _strict that LooseStruct does not override
EveryClassStrict(cls) == TRUE

\* LooseStruct._strict = False; every other class inherits Struct._strict = True
_strict(cls) == cls # "LooseStruct"

\* isinstance(val, Struct subclass): the class itself, or the base class Struct
IsSubclass(cls, base) == cls = base \/ base = "Struct"

IsInstance(val, type) ==
    LET obj == Deref(val) IN
    CASE type.k = "int" -> obj.t = "int"
      [] type.k = "str" -> obj.t = "str"
      [] type.k = "List" -> obj.t = "List" /\ obj.type = type
      [] type.k = "Map" -> obj.t = "Map" /\ obj.type = type
      [] type.k = "Struct" -> obj.t = "Struct" /\ IsSubclass(obj.type, type.name)
      [] OTHER -> FALSE

IsGeneric(type) == type.k \in {"List", "Map"}

IsStruct(type) == type.k = "Struct"

(***************************************************************************)
(* Conversion.  A convert_func argument is named by a tag: "None" (the     *)
(* argument was not given), "_convert", "convert_with_dicts", or "i2o" for *)
(* the lambda t, v: intermediate_to_obj(v, t).  Attribute maps and dicts   *)
(* are functions from keys (Python values) to values.  The conversion      *)
(* functions call one another through Call(function, arguments); a raised  *)
(* exception is the value a call returns, and it passes through whatever   *)
(* would have used the result.                                             *)
(***************************************************************************)
RECURSIVE Call(_, _, _, _)
RECURSIVE SetAll(_, _, _, _)

\* d[key] = val
DictStore(d, key, val) ==
    [k \in (DOMAIN d) \cup {key} |-> IF k = key THEN val ELSE d[k]]

\* a marker test that takes a required field for a defaulted one
HasDefaultUnlessUndefined(field_def) == field_def.default # Undefined

\* field_def.default not in (Undefined, NoDefault)
HasDefault(field_def) == field_def.default \notin {Undefined, NoDefault}

SeqOf(S) == CHOOSE seq \in [1..Cardinality(S) -> S] : {seq[i] : i \in DOMAIN seq} = S

IndexOf(seq, x) == CHOOSE i \in DOMAIN seq : seq[i] = x

\* the fields of a class that have a concrete default
DefaultedFields(cls) == {f \in DOMAIN ClassBody(cls) : HasDefault(ClassBody(cls)[f])}

\* The defaults whose conversion at class definition makes a List/Map object:
\* the object is made once and the schema refers to it from then on.
DefaultObjs ==
    SeqOf({<<cls, attr>> \in StructNames \X {NameOrder[i] : i \in 1..Len(NameOrder)} :
              /\ attr \in DOMAIN ClassBody(cls)
              /\ HasDefault(ClassBody(cls)[attr])
              /\ IsGeneric(ClassBody(cls)[attr].type)})

DefaultSlot(cls, attr) == IndexOf(DefaultObjs, <<cls, attr>>)

\* val.default = val.convert(val.default)
FieldDef_convert(val) == Call("_convert", val.type, val.default, "None")

\* the heap when the classes have been defined
InitHeap ==
    [i \in DOMAIN DefaultObjs |->
        FieldDef_convert(ClassBody(DefaultObjs[i][1])[DefaultObjs[i][2]])]

\* _StructMetaclass.__new__, for one field: a concrete default is converted
SchemaField(cls, attr, val) ==
    IF ~HasDefault(val) THEN val
    ELSE IF IsGeneric(val.type) THEN FieldDef(val.type, Ref(DefaultSlot(cls, attr)))
    ELSE FieldDef(val.type, FieldDef_convert(val))

\* _StructMetaclass.__new__: the schema of a class
_schema(cls) ==
    [attr \in DOMAIN ClassBody(cls) |-> SchemaField(cls, attr, ClassBody(cls)[attr])]

InSchema(cls, attr) == attr.t = "str" /\ attr.v \in DOMAIN _schema(cls)

\* MapBase.convert's probe val.iteritems: dicts and Map objects have it; a Struct
\* answers the probe through __getattr__ with AttributeError
HasIteritems(val) == Deref(val).t \in {"dict", "Map"}

\* convert_func or _convert
OrConvert(convert_func) == IF convert_func = "None" THEN "_convert" ELSE convert_func

\* isinstance(val, type) / issubclass(type, Generic) / else raise
_convert(type, val, convert_func) ==
    IF IsInstance(val, type) THEN val
    ELSE IF type.k = "List"
         THEN Call("ListBase_convert", type, val, OrConvert(convert_func))
    ELSE IF type.k = "Map"
         THEN Call("MapBase_convert", type, val, OrConvert(convert_func))
    ELSE TypeError

\* list.__init__ over a generator: the first item that raises ends it
ListOf(cls, items) ==
    IF \E i \in DOMAIN items : IsError(items[i])
    THEN items[Min({i \in DOMAIN items : IsError(items[i])})]
    ELSE IF cls = NoneT THEN PyList(items) ELSE ListObj(cls, items)

Converted(val) == ~IsError(val)

\* a convert that leaves out the items that do not convert
ListBase_convertSkipping(cls, value, convert_func) ==
    IF IsInstance(value, cls) THEN value
    ELSE IF value.t = "list"
         THEN ListObj(cls, SelectSeq([i \in 1..Len(value.v) |->
                                         Call(convert_func, cls.elem, value.v[i], "None")],
                                     Converted))
    ELSE TypeError

\* ListBase.convert: cls(convert_func(cls._elem_type, item) for item in value)
ListBase_convert(cls, value, convert_func) ==
    IF IsInstance(value, cls) THEN value
    ELSE IF value.t = "list"
         THEN ListOf(cls, [i \in 1..Len(value.v) |->
                              Call(convert_func, cls.elem, value.v[i], "None")])
    ELSE TypeError

\* the loop of MapBase.__init__: self[convert(key)] = convert(val), where the
\* value of an item is converted before its key (the right-hand side first)
MapOf(cls, normal_map, cval, ckey) ==
    IF \E k \in DOMAIN normal_map : IsError(cval[k]) \/ IsError(ckey[k])
    THEN (LET k == FirstKey({o \in DOMAIN normal_map : IsError(cval[o]) \/ IsError(ckey[o])})
          IN  IF IsError(cval[k]) THEN cval[k] ELSE ckey[k])
    ELSE MapObj(cls, [k \in {ckey[o] : o \in DOMAIN normal_map} |->
                         cval[CHOOSE o \in DOMAIN normal_map : ckey[o] = k]])

\* MapBase.__init__
MapBase_init(cls, normal_map, convert_func) ==
    MapOf(cls, normal_map,
          [k \in DOMAIN normal_map |-> Call(convert_func, cls.val, normal_map[k], "None")],
          [k \in DOMAIN normal_map |-> Call(convert_func, cls.key, k, "None")])

\* MapBase.convert: the probe for iteritems, then cls(val, convert_func)
MapBase_convert(cls, val, convert_func) ==
    IF HasIteritems(val) THEN MapBase_init(cls, Deref(val).v, convert_func) ELSE TypeError

\* self._attrs[attr] = <converted>, unless the conversion raised
Store(obj, attr, converted) ==
    IF IsError(converted) THEN converted
    ELSE StructObj(obj.type, DictStore(obj.v, attr, converted))

\* a __setattr__ that stores whatever it is given
Struct_setattrUnchecked(obj, attr, val) == Store(obj, attr, val)

\* Struct.__setattr__
Struct_setattr(obj, attr, val) ==
    IF InSchema(obj.type, attr)
    THEN Store(obj, attr, Call("_convert", _schema(obj.type)[attr.v].type, val, "None"))
    ELSE IF _strict(obj.type) THEN AttributeError
    ELSE Store(obj, attr, val)

\* setattr_with_convert_func
setattr_with_convert_func(struct, attr, val, convert_func) ==
    IF InSchema(struct.type, attr)
    THEN Store(struct, attr,
               Call(convert_func, _schema(struct.type)[attr.v].type, val, "None"))
    ELSE IF _strict(struct.type) THEN AttributeError
    ELSE Store(struct, attr, val)

\* one round of the loops below; how = "setattr" is the builtin setattr (which
\* wants a string for the name), any other how is a convert_func tag
SetOne(obj, key, val, how) ==
    IF how = "setattr"
    THEN IF key.t # "str" THEN TypeError ELSE Call("Struct_setattr", obj, key, val)
    ELSE Call("setattr_with_convert_func", obj, <<key, val>>, how)

\* for key, val in items.iteritems(): set the attribute
SetAll(obj, items, todo, how) ==
    IF todo = {} \/ IsError(obj) THEN obj
    ELSE SetAll(SetOne(obj, FirstKey(todo), items[FirstKey(todo)], how),
                items, todo \ {FirstKey(todo)}, how)

SetItems(obj, items, how) == SetAll(obj, items, DOMAIN items, how)

\* the attributes Struct.__init__ pre-fills: the fields with a concrete default
DefaultsOf(schema) ==
    [key \in {PyStr(attr) : attr \in {f \in DOMAIN schema : HasDefault(schema[f])}} |->
        schema[key.v].default]

Defaults(cls) == DefaultsOf(_schema(cls))

\* an __init__ that fills in the defaults after the keyword arguments
Struct_initKwargsFirst(cls, kwargs) ==
    SetItems(SetItems(StructObj(cls, <<>>), kwargs, "setattr"), Defaults(cls), "setattr")

\* Struct.__init__(**kwargs): the defaults first, then the keyword arguments
Struct_init(cls, kwargs) ==
    SetItems(SetItems(StructObj(cls, <<>>), Defaults(cls), "setattr"), kwargs, "setattr")

\* the except branch of convert_with_dicts: a TypeError of _convert is caught
\* when a dict is to become a Struct, and the dict's items are then set with
\* the builtin setattr
ExceptTypeError(type, val, r) ==
    IF r # TypeError THEN r
    ELSE IF IsStruct(type) /\ val.t = "dict"
         THEN SetItems(Call("Struct_init", type.name, <<>>, "None"), val.v, "setattr")
    ELSE TypeError

\* convert_with_dicts
convert_with_dicts(type, val) ==
    ExceptTypeError(type, val, Call("_convert", type, val, "convert_with_dicts"))

\* dict_to_struct: result = struct_type(), then json_dict.iteritems()
dict_to_struct(json_dict, struct_type, convert_func) ==
    IF ~HasIteritems(json_dict) THEN AttributeError
    ELSE SetItems(Call("Struct_init",
                       IF struct_type = NoneT THEN "LooseStruct" ELSE struct_type.name,
                       <<>>, "None"),
                  Deref(json_dict).v, OrConvert(convert_func))

(***************************************************************************)
(* ATTR_NAME_RX = re.compile(r'[a-zA-Z]\w*$'), used with match(): the      *)
(* first character is a letter and every other one is a letter, a digit or *)
(* an underscore; $ matches at the end of the string and also before a     *)
(* newline that ends it.  Spell gives the character classes of a name.     *)
(***************************************************************************)
Spell(name) ==
    CASE name = "_p" -> <<"underscore", "letter">>
      [] name = "a\n" -> <<"letter", "newline">>
      [] name = "k-1" -> <<"letter", "other", "digit">>
      [] name = "inner" -> <<"letter", "letter", "letter", "letter", "letter">>
      [] OTHER -> <<"letter">>

ATTR_NAME_RX_match(name) ==
    /\ Len(Spell(name)) >= 1
    /\ Spell(name)[1] = "letter"
    /\ \A i \in 2..Len(Spell(name)) :
          \/ Spell(name)[i] \in {"letter", "digit", "underscore"}
          \/ i = Len(Spell(name)) /\ Spell(name)[i] = "newline"

\* the dict branch of intermediate_to_obj without a type: the loop over the
\* keys returns at its first key either way, and an empty dict leaves the loop
\* for issubclass(None, Generic), a TypeError
DictOf(items) ==
    IF \E k \in DOMAIN items : IsError(items[k])
    THEN items[FirstKey({k \in DOMAIN items : IsError(items[k])})]
    ELSE PyDict(items)

InferDict(intermediate, key) ==
    IF key.t # "str" THEN TypeError
    ELSE IF ~ATTR_NAME_RX_match(key.v)
         THEN DictOf([k \in DOMAIN intermediate.v |->
                         Call("intermediate_to_obj", intermediate.v[k], NoneT, "None")])
    ELSE Call("dict_to_struct", intermediate, NoneT, "None")

\* intermediate_to_obj
intermediate_to_obj(intermediate, confix_type, convert_func) ==
    IF confix_type = NoneT
    THEN IF intermediate.t = "list"
         THEN ListOf(NoneT, [i \in 1..Len(intermediate.v) |->
                                Call("intermediate_to_obj", intermediate.v[i], NoneT, "None")])
         ELSE IF intermediate.t = "dict"
         THEN IF DOMAIN intermediate.v = {} THEN TypeError
              ELSE InferDict(intermediate, FirstKey(DOMAIN intermediate.v))
         ELSE intermediate
    ELSE IF confix_type.k = "List"
         THEN Call("ListBase_convert", confix_type, intermediate, "convert_with_dicts")
    ELSE IF confix_type.k = "Map"
         THEN Call("MapBase_convert", confix_type, intermediate, "convert_with_dicts")
    ELSE IF IsStruct(confix_type)
         THEN Call("dict_to_struct", intermediate, confix_type,
                   IF convert_func = "None" THEN "i2o" ELSE convert_func)
    ELSE Call("_convert", confix_type, intermediate, "None")

\* a call of one of the functions above; "i2o" is the lambda
\* t, v: intermediate_to_obj(v, t) that intermediate_to_obj hands to dict_to_struct
Call(function, a, b, c) ==
    CASE function \in {"intermediate_to_obj", "i2o"} ->
             intermediate_to_obj(IF function = "i2o" THEN b ELSE a,
                                 IF function = "i2o" THEN a ELSE b,
                                 IF function = "i2o" THEN "None" ELSE c)
      [] function = "_convert" -> _convert(a, b, c)
      [] function = "convert_with_dicts" -> convert_with_dicts(a, b)
      [] function = "ListBase_convert" -> ListBase_convert(a, b, c)
      [] function = "MapBase_convert" -> MapBase_convert(a, b, c)
      [] function = "dict_to_struct" -> dict_to_struct(a, b, c)
      [] function = "Struct_init" -> Struct_init(a, b)
      [] function = "Struct_setattr" -> Struct_setattr(a, b, c)
      [] function = "setattr_with_convert_func" ->
             setattr_with_convert_func(a, b[1], b[2], c)

RECURSIVE _to_intermediate(_)
\* yaml._to_intermediate: Map, List and Struct objects become dicts and lists
_to_intermediate(val) ==
    LET obj == Deref(val) IN
    IF obj.t = "Map"
    THEN PyDict([k \in {_to_intermediate(o) : o \in DOMAIN obj.v} |->
                    _to_intermediate(obj.v[CHOOSE o \in DOMAIN obj.v : _to_intermediate(o) = k])])
    ELSE IF obj.t = "List"
    THEN PyList([i \in 1..Len(obj.v) |-> _to_intermediate(obj.v[i])])
    ELSE IF obj.t = "Struct"
    THEN PyDict([k \in DOMAIN obj.v |-> _to_intermediate(obj.v[k])])
    ELSE obj

(***************************************************************************)
(* Comparison.  cmp() is 0 for equal operands; for unequal ones only the   *)
(* fact that it is not 0 is modelled.                                      *)
(***************************************************************************)
RECURSIVE cmp(_, _)

\* a dict comparison that looks at the keys only
dict_compareKeys(a, b) == IF DOMAIN a = DOMAIN b THEN 0 ELSE 1

\* cmp of two dicts (dict_compare): the sizes first, then keys and values
dict_compare(a, b) ==
    IF Cardinality(DOMAIN a) < Cardinality(DOMAIN b) THEN -1
    ELSE IF Cardinality(DOMAIN a) > Cardinality(DOMAIN b) THEN 1
    ELSE IF \E k \in DOMAIN a : k \notin DOMAIN b \/ cmp(a[k], b[k]) # 0 THEN 1
    ELSE 0

\* cmp of two lists: the first differing pair of elements, then the lengths
list_compare(a, b) ==
    IF \E i \in 1..Len(a) : i <= Len(b) /\ cmp(a[i], b[i]) # 0 THEN 1
    ELSE IF Len(a) < Len(b) THEN -1
    ELSE IF Len(a) > Len(b) THEN 1
    ELSE 0

\* a __cmp__ that takes instances of different classes for different
Struct_cmpSameType(self, other) ==
    IF Deref(other).t = "Struct" /\ Deref(other).type = self.type
    THEN dict_compare(self.v, Deref(other).v)
    ELSE 1

\* Struct.__cmp__ and LooseStruct.__cmp__: the _attrs dicts of two Structs are
\* compared; a strict Struct and another object differ by id()
Struct_cmp(self, other) ==
    IF Deref(other).t = "Struct" THEN dict_compare(self.v, Deref(other).v) ELSE 1

\* ListBase.__cmp__ and MapBase.__cmp__ compare _elems / _map with the other
\* operand, which answers a builtin list or dict through its own __cmp__
cmp(x, y) ==
    LET a == Deref(x)
        b == Deref(y)
    IN  CASE a.t = "Struct" -> Struct_cmp(a, b)
          [] a.t = "List" -> cmp(PyList(a.v), b)
          [] a.t = "Map" -> cmp(PyDict(a.v), b)
          [] b.t \in {"Struct", "List", "Map"} -> 0 - cmp(b, a)
          [] a.t = "list" /\ b.t = "list" -> list_compare(a.v, b.v)
          [] a.t = "dict" /\ b.t = "dict" -> dict_compare(a.v, b.v)
          [] a.t = b.t -> IF a = b THEN 0 ELSE 1
          [] OTHER -> 1

(***************************************************************************)
(* The record runtime: Struct instances, whose attributes hold scalars,    *)
(* untyped lists (on a loose record) and references to List objects.       *)
(* last records the writing operation that ran last: its arguments, what   *)
(* it returned or raised (res), and the attribute map or elements it       *)
(* found (pre).  Reading an attribute and comparing two instances change   *)
(* nothing: they are the operators Struct_getattr and cmp.                 *)
(***************************************************************************)
Op(op, cls, target, key, val, res, pre) ==
    [op |-> op, cls |-> cls, target |-> target, key |-> key, val |-> val, res |-> res,
     pre |-> pre]

NoOp == Op("none", "", 0, None, None, None, <<>>)

RecIdle ==
    /\ insts = <<>>
    /\ last = NoOp

\* no translation data, and no class beyond those of ClassBody
ClassIdle ==
    /\ _translation_data = [Struct |-> <<>>]
    /\ declared = <<>>

\* _loader = None, _roots = []
LoaderIdle ==
    /\ _loader = None
    /\ _roots = <<>>

\* the classes that are instantiated
RecClasses == {"TestStruct", "TypeWithLists", "JsonTestStruct", "LooseStruct"}

\* the attribute names used on a class: its fields and one undeclared name
ArgNames(cls) == {PyStr(attr) : attr \in DOMAIN ClassBody(cls)} \cup {PyStr("x")}

\* the values handed to the constructor and to attribute writes of a class:
\* values of its field types and a value of another type
ArgValues(cls) ==
    IF cls \in {"TypeWithLists", "LooseStruct"}
    THEN {PyInt(0), PyList(<<>>)} \cup {Ref(o) : o \in 1..Len(heap)}
    ELSE IF cls = "TestStruct" THEN {PyInt(0), PyInt(100), PyStr("x")}
    ELSE {PyInt(0), PyStr("x")}

\* the values handed to the writes of a List object
ElemValues == {PyInt(0), PyStr("x"), PyStr("a")}

Kwargs(cls) ==
    UNION {[names -> ArgValues(cls)] :
              names \in {S \in SUBSET ArgNames(cls) : Cardinality(S) <= MaxKwargs}}

RECURSIVE Intern(_, _, _)
\* the List/Map objects that a conversion created get their place in the heap
Intern(h, attrs, todo) ==
    IF todo = {} THEN [attrs |-> attrs, heap |-> h]
    ELSE LET key == FirstKey(todo) IN
         IF attrs[key].t \in {"List", "Map"}
         THEN Intern(Append(h, attrs[key]), DictStore(attrs, key, Ref(Len(h) + 1)),
                     todo \ {key})
         ELSE Intern(h, attrs, todo \ {key})

\* Struct.__getattr__
Struct_getattr(obj, attr) ==
    IF attr \in DOMAIN obj.v THEN obj.v[attr] ELSE AttributeError

\* cls(**kwargs)
New(cls, kwargs) ==
    /\ Len(insts) < MaxInsts
    /\ \E r \in {Struct_init(cls, kwargs)} :
       IF IsError(r)
       THEN /\ last' = Op("new", cls, 0, None, PyDict(kwargs), r, <<>>)
            /\ UNCHANGED <<insts, heap>>
       ELSE \E n \in {Intern(heap, r.v, DOMAIN r.v)} :
            /\ Len(n.heap) <= MaxObjs
            /\ heap' = n.heap
            /\ insts' = Append(insts, StructObj(cls, n.attrs))
            /\ last' = Op("new", cls, Len(insts) + 1, None, PyDict(kwargs), None, <<>>)
    /\ UNCHANGED <<cacheVars, convVars, classVars, loaderVars, dict_order>>

\* obj.attr = val
SetAttr(i, attr, val) ==
    /\ \E r \in {Struct_setattr(insts[i], attr, val)} :
       IF IsError(r)
       THEN /\ last' = Op("setattr", insts[i].type, i, attr, val, r, insts[i].v)
            /\ UNCHANGED <<insts, heap>>
       ELSE \E n \in {Intern(heap, r.v, {attr})} :
            /\ Len(n.heap) <= MaxObjs
            /\ heap' = n.heap
            /\ insts' = [insts EXCEPT ![i] = StructObj(insts[i].type, n.attrs)]
            /\ last' = Op("setattr", insts[i].type, i, attr, val, None, insts[i].v)
    /\ UNCHANGED <<cacheVars, convVars, classVars, loaderVars, dict_order>>

\* the List objects that an attribute of some instance refers to
Reachable ==
    {o \in 1..Len(heap) : \E i \in 1..Len(insts) : \E k \in DOMAIN insts[i].v :
        insts[i].v[k] = Ref(o)}

\* an append that stores whatever it is given
ListBase_appendUnchecked(o, val) ==
    /\ Len(heap[o].v) < MaxLen
    /\ heap' = [heap EXCEPT ![o].v = Append(@, val)]
    /\ last' = Op("append", "", o, None, val, None, heap[o].v)
    /\ UNCHANGED <<cacheVars, convVars, classVars, loaderVars, dict_order, insts>>

\* ListBase.append
ListBase_append(o, val) ==
    /\ Len(heap[o].v) < MaxLen
    /\ \E c \in {_convert(heap[o].type.elem, val, "None")} :
       IF IsError(c)
       THEN /\ last' = Op("append", "", o, None, val, c, heap[o].v)
            /\ UNCHANGED heap
       ELSE /\ heap' = [heap EXCEPT ![o].v = Append(@, c)]
            /\ last' = Op("append", "", o, None, val, None, heap[o].v)
    /\ UNCHANGED <<cacheVars, convVars, classVars, loaderVars, dict_order, insts>>

\* ListBase.__setitem__; the index counts from 1 here
ListBase_setitem(o, index, val) ==
    /\ \E c \in {_convert(heap[o].type.elem, val, "None")} :
       IF IsError(c)
       THEN /\ last' = Op("setitem", "", o, PyInt(index), val, c, heap[o].v)
            /\ UNCHANGED heap
       ELSE /\ heap' = [heap EXCEPT ![o].v[index] = c]
            /\ last' = Op("setitem", "", o, PyInt(index), val, None, heap[o].v)
    /\ UNCHANGED <<cacheVars, convVars, classVars, loaderVars, dict_order, insts>>

(***************************************************************************)
(* The round trip of a typed value through the untyped tree.  conv holds   *)
(* the target type, the value x of that type, then the tree that           *)
(* _to_intermediate makes of x, then what intermediate_to_obj makes of the *)
(* tree.                                                                   *)
(***************************************************************************)
Conv(stage, type, x, flat, result) ==
    [stage |-> stage, type |-> type, x |-> x, flat |-> flat, result |-> result]

ConvIdle == conv = Conv("idle", NoneT, None, None, None)

\* the target types: scalars, containers of scalars, records, a record nested
\* in a record, and records nested in containers
ConvTypes ==
    {IntT, StrT, ListT(IntT), MapT(StrT, IntT),
     StructT("TestStruct"), StructT("JsonTestStruct"), StructT("Outer"),
     ListT(StructT("JsonTestStruct")), MapT(StrT, StructT("JsonTestStruct")),
     ListT(StructT("Outer"))}

\* the functions from at most MaxLen keys to values
Dicts(keys, values) ==
    UNION {[K -> values] : K \in {S \in SUBSET keys : Cardinality(S) <= MaxLen}}

\* the sequences of at most MaxLen values
Lists(values) == UNION {[1..n -> values] : n \in 0..MaxLen}

RECURSIVE ValuesOf(_)
\* the attribute maps an instance of cls can hold: a field with a default is
\* always present, any other field is present or absent
AttrMaps(cls) ==
    {attrs \in UNION {[{PyStr(f) : f \in F} ->
                          UNION {ValuesOf(ClassBody(cls)[f].type) : f \in F}] :
                         F \in SUBSET DOMAIN ClassBody(cls)} :
        /\ \A f \in DefaultedFields(cls) : PyStr(f) \in DOMAIN attrs
        /\ \A k \in DOMAIN attrs : attrs[k] \in ValuesOf(ClassBody(cls)[k.v].type)}

\* the values of a type
ValuesOf(type) ==
    CASE type.k = "int" -> {PyInt(0), PyInt(1)}
      [] type.k = "str" -> {PyStr("a"), PyStr("x")}
      [] type.k = "List" -> {ListObj(type, elems) : elems \in Lists(ValuesOf(type.elem))}
      [] type.k = "Map" ->
             {MapObj(type, items) : items \in Dicts(ValuesOf(type.key), ValuesOf(type.val))}
      [] type.k = "Struct" -> {StructObj(type.name, attrs) : attrs \in AttrMaps(type.name)}

\* yaml._to_intermediate(x)
Flatten ==
    /\ conv.stage = "value"
    /\ conv' = [conv EXCEPT !.stage = "flat", !.flat = _to_intermediate(conv.x)]
    /\ UNCHANGED <<cacheVars, pyVars, recVars, classVars, loaderVars>>

\* intermediate_to_obj(flat, T)
Convert ==
    /\ conv.stage = "flat"
    /\ conv' = [conv EXCEPT !.stage = "done",
                            !.result = intermediate_to_obj(conv.flat, conv.type, "None")]
    /\ UNCHANGED <<cacheVars, pyVars, recVars, classVars, loaderVars>>

InitConv ==
    /\ CacheIdle
    /\ dict_order \in {"asc", "desc"}
    /\ heap = InitHeap
    /\ RecIdle
    /\ ClassIdle
    /\ LoaderIdle
    /\ conv \in {Conv("value", type, x, None, None) : <<type, x>> \in
                    UNION {{type} \X ValuesOf(type) : type \in ConvTypes}}

NextConv == Flatten \/ Convert

SpecConv == InitConv /\ [][NextConv]_vars

(***************************************************************************)
(* Type inference: intermediate_to_obj without a target type, applied to   *)
(* an untyped dict whose keys are legal attribute names, illegal ones, or  *)
(* a mix, and whose values are scalars, lists and dicts.                   *)
(***************************************************************************)
InferKeys == {PyStr("a"), PyStr("b"), PyStr("k-1")}

InferValues ==
    {PyInt(0), PyList(<<PyInt(0)>>), PyDict(<<>>),
     PyDict([k \in {PyStr("a")} |-> PyInt(0)]), PyDict([k \in {PyStr("k-1")} |-> PyInt(0)])}

Trees ==
    {PyDict(items) : items \in
        UNION {[K -> InferValues] : K \in {S \in SUBSET InferKeys : Cardinality(S) <= MaxKeys}}}

\* intermediate_to_obj(tree)
Infer ==
    /\ conv.stage = "tree"
    /\ conv' = [conv EXCEPT !.stage = "done",
                            !.result = intermediate_to_obj(conv.flat, NoneT, "None")]
    /\ UNCHANGED <<cacheVars, pyVars, recVars, classVars, loaderVars>>

InitInfer ==
    /\ CacheIdle
    /\ dict_order \in {"asc", "desc"}
    /\ heap = InitHeap
    /\ RecIdle
    /\ ClassIdle
    /\ LoaderIdle
    /\ conv \in {Conv("tree", NoneT, None, tree, None) : tree \in Trees}

NextInfer == Infer

SpecInfer == InitInfer /\ [][NextInfer]_vars

(***************************************************************************)
(* Conversion to a record type: intermediate_to_obj with a Struct class as *)
(* the target, applied to instances of the class and to dicts whose keys   *)
(* are fields of the class or the undeclared name x.                       *)
(***************************************************************************)
StructTargets == {StructT("TestStruct"), StructT("JsonTestStruct"), StructT("Outer")}

SourceValues ==
    {PyInt(0), PyStr("x"), PyList(<<PyInt(0)>>), PyDict([k \in {PyStr("a")} |-> PyInt(0)])}

\* the sources handed in for a target class: its instances and untyped dicts
Sources(type) ==
    ValuesOf(type) \cup
    {PyDict(items) : items \in
        UNION {[K -> SourceValues] :
                  K \in {S \in SUBSET ArgNames(type.name) : Cardinality(S) <= MaxKeys}}}

\* intermediate_to_obj(source, T)
ToStruct ==
    /\ conv.stage = "source"
    /\ conv' = [conv EXCEPT !.stage = "done",
                            !.result = intermediate_to_obj(conv.flat, conv.type, "None")]
    /\ UNCHANGED <<cacheVars, pyVars, recVars, classVars, loaderVars>>

InitToStruct ==
    /\ CacheIdle
    /\ dict_order \in {"asc", "desc"}
    /\ heap = InitHeap
    /\ RecIdle
    /\ ClassIdle
    /\ LoaderIdle
    /\ conv \in {Conv("source", type, None, source, None) : <<type, source>> \in
                    UNION {{type} \X Sources(type) : type \in StructTargets}}

NextToStruct == ToStruct

SpecToStruct == InitToStruct /\ [][NextToStruct]_vars

(***************************************************************************)
(* List.convert as a function of the list type, the source and the         *)
(* convert_func: the default _convert, or convert_with_dicts as            *)
(* intermediate_to_obj passes it.                                          *)
(***************************************************************************)
ListTargets ==
    {ListT(IntT), ListT(StrT), ListT(ListT(IntT)), ListT(StructT("JsonTestStruct"))}

SourceItems ==
    {PyInt(0), PyStr("x"), PyList(<<PyInt(0)>>),
     PyDict([k \in {PyStr("a")} |-> PyInt(0)]), PyDict([k \in {PyStr("x")} |-> PyInt(0)]),
     StructObj("JsonTestStruct", [k \in {PyStr("a")} |-> PyInt(0)])}

\* the sources: List objects (of the target type and of others), untyped lists
\* of at most MaxItems items, and values that are no list
ListSources ==
    UNION {ValuesOf(type) : type \in {ListT(IntT), ListT(StrT)}}
    \cup {Ref(o) : o \in DOMAIN InitHeap}
    \cup {PyList(items) : items \in UNION {[1..n -> SourceItems] : n \in 0..MaxItems}}
    \cup {PyInt(0), PyDict(<<>>)}

\* cls.convert(value)
ConvertList ==
    /\ conv.stage = "source"
    /\ conv' = [conv EXCEPT !.stage = "converted",
                            !.result = ListBase_convert(conv.type, conv.flat, "_convert")]
    /\ UNCHANGED <<cacheVars, pyVars, recVars, classVars, loaderVars>>

\* cls.convert(value, convert_with_dicts)
ConvertListWithDicts ==
    /\ conv.stage = "source"
    /\ conv' = [conv EXCEPT !.stage = "converted_with_dicts",
                            !.result = ListBase_convert(conv.type, conv.flat,
                                                        "convert_with_dicts")]
    /\ UNCHANGED <<cacheVars, pyVars, recVars, classVars, loaderVars>>

InitListConvert ==
    /\ CacheIdle
    /\ dict_order \in {"asc", "desc"}
    /\ heap = InitHeap
    /\ RecIdle
    /\ ClassIdle
    /\ LoaderIdle
    /\ conv \in {Conv("source", type, None, source, None) :
                    <<type, source>> \in ListTargets \X ListSources}

NextListConvert == ConvertList \/ ConvertListWithDicts

SpecListConvert == InitListConvert /\ [][NextListConvert]_vars

(***************************************************************************)
(* A Map object and its keyed operations.  The Map under test is the last  *)
(* object of the heap; last records the operation that ran last, with its  *)
(* key, its value or default (None when no default is given), what it      *)
(* returned or raised, and the items of the Map before it.                 *)
(***************************************************************************)
MapTypes == {MapT(StrT, ListT(IntT)), MapT(StrT, IntT)}

TheMap == Len(heap)

MapKeys == {PyStr("a"), PyStr("b"), PyInt(0)}

MapValues == {PyList(<<PyInt(0)>>), PyList(<<>>), PyList(<<PyStr("x")>>), PyInt(0), None}

\* a get that stores the default it returns
MapBase_getStoring(key, default) ==
    /\ \E k \in {_convert(heap[TheMap].type.key, key, "None")} :
       \E d \in {_convert(heap[TheMap].type.val, default, "None")} :
          /\ ~IsError(k)
          /\ ~IsError(d)
          /\ heap' = [heap EXCEPT ![TheMap].v = DictStore(@, k, d)]
          /\ last' = Op("get", "", TheMap, key, default, d, heap[TheMap].v)
    /\ UNCHANGED <<cacheVars, convVars, classVars, loaderVars, dict_order, insts>>

\* a setdefault that stores the default over a value that is there
MapBase_setdefaultOverwrite(key, default) ==
    /\ \E k \in {_convert(heap[TheMap].type.key, key, "None")} :
       \E d \in {_convert(heap[TheMap].type.val, default, "None")} :
          /\ ~IsError(k)
          /\ ~IsError(d)
          /\ heap' = [heap EXCEPT ![TheMap].v = DictStore(@, k, d)]
          /\ last' = Op("setdefault", "", TheMap, key, default, d, heap[TheMap].v)
    /\ UNCHANGED <<cacheVars, convVars, classVars, loaderVars, dict_order, insts>>

\* MapBase.__setitem__: the value is converted before the key
MapBase_setitem(key, val) ==
    /\ \E c \in {_convert(heap[TheMap].type.val, val, "None")} :
       \E k \in {_convert(heap[TheMap].type.key, key, "None")} :
          IF IsError(c) \/ IsError(k)
          THEN /\ last' = Op("setitem", "", TheMap, key, val,
                             IF IsError(c) THEN c ELSE k, heap[TheMap].v)
               /\ UNCHANGED heap
          ELSE /\ heap' = [heap EXCEPT ![TheMap].v = DictStore(@, k, c)]
               /\ last' = Op("setitem", "", TheMap, key, val, None, heap[TheMap].v)
    /\ UNCHANGED <<cacheVars, convVars, classVars, loaderVars, dict_order, insts>>

\* MapBase.get: a default of None stands for no default
MapBase_get(key, default) ==
    /\ \E k \in {_convert(heap[TheMap].type.key, key, "None")} :
          last' = Op("get", "", TheMap, key, default,
                     IF IsError(k) THEN k
                     ELSE IF k \in DOMAIN heap[TheMap].v THEN heap[TheMap].v[k]
                     ELSE IF default = None THEN None
                     ELSE _convert(heap[TheMap].type.val, default, "None"),
                     heap[TheMap].v)
    /\ UNCHANGED <<cacheVars, convVars, classVars, loaderVars, dict_order, insts, heap>>

\* MapBase.setdefault
MapBase_setdefault(key, default) ==
    /\ \E k \in {_convert(heap[TheMap].type.key, key, "None")} :
          IF IsError(k)
          THEN /\ last' = Op("setdefault", "", TheMap, key, default, k, heap[TheMap].v)
               /\ UNCHANGED heap
          ELSE IF k \in DOMAIN heap[TheMap].v
          THEN /\ last' = Op("setdefault", "", TheMap, key, default, heap[TheMap].v[k],
                             heap[TheMap].v)
               /\ UNCHANGED heap
          ELSE \E val \in {_convert(heap[TheMap].type.val, default, "None")} :
                  /\ last' = Op("setdefault", "", TheMap, key, default, val, heap[TheMap].v)
                  /\ heap' = IF IsError(val) THEN heap
                             ELSE [heap EXCEPT ![TheMap].v = DictStore(@, k, val)]
    /\ UNCHANGED <<cacheVars, convVars, classVars, loaderVars, dict_order, insts>>

InitMap ==
    /\ CacheIdle
    /\ dict_order \in {"asc", "desc"}
    /\ heap \in {Append(InitHeap, MapObj(type, <<>>)) : type \in MapTypes}
    /\ RecIdle
    /\ ClassIdle
    /\ LoaderIdle
    /\ ConvIdle

NextMap ==
    \/ \E key \in MapKeys : \E val \in MapValues \ {None} : MapBase_setitem(key, val)
    \/ \E key \in MapKeys : \E default \in MapValues : MapBase_get(key, default)
    \/ \E key \in MapKeys : \E default \in MapValues \ {None} : MapBase_setdefault(key, default)

SpecMap == InitMap /\ [][NextMap]_vars

(***************************************************************************)
(* Translation data: set_translation_data and get_translation_data go      *)
(* through the attribute _translation_data of the class they are given.    *)
(* The class statement of Struct binds that name to one dict, and neither  *)
(* the metaclass nor make_struct binds it again in a subclass, so the      *)
(* attribute lookup on any Struct class ends at the dict of Struct.        *)
(***************************************************************************)
KeyError == [t |-> "KeyError"]

\* the classes that translators are given
TransClasses == {"TestStruct", "JsonTestStruct", "Outer"}

\* a class object used as a value
PyType(name) == [t |-> "type", v |-> name]

\* the keys of the translators
TransKeys == {PyType("MessageDef"), PyType("OtherDef")}

TransValues == {PyStr("a"), PyStr("x"), PyInt(0)}

\* the class on the way from struct to object whose __dict__ holds _translation_data
TranslationDataOwner(struct) == "Struct"

\* struct._translation_data
TranslationData(struct) == _translation_data[TranslationDataOwner(struct)]

\* d[key]
dict_getitem(d, key) == IF key \in DOMAIN d THEN d[key] ELSE KeyError

\* struct._translation_data[key] = value
set_translation_data(struct, key, value) ==
    /\ _translation_data' =
          [_translation_data EXCEPT ![TranslationDataOwner(struct)] = DictStore(@, key, value)]
    /\ last' = Op("set_translation_data", struct, 0, key, value, None, <<>>)
    /\ UNCHANGED <<cacheVars, pyVars, convVars, loaderVars, insts, declared>>

\* return struct._translation_data[key]
get_translation_data(struct, key) ==
    /\ last' = Op("get_translation_data", struct, 0, key, None,
                  dict_getitem(TranslationData(struct), key), <<>>)
    /\ UNCHANGED <<cacheVars, pyVars, convVars, loaderVars, insts, classVars>>

InitTrans ==
    /\ CacheIdle
    /\ dict_order = "asc"
    /\ heap = InitHeap
    /\ RecIdle
    /\ ClassIdle
    /\ LoaderIdle
    /\ ConvIdle

NextTrans ==
    \/ \E struct \in TransClasses : \E key \in TransKeys : \E value \in TransValues :
          set_translation_data(struct, key, value)
    \/ \E struct \in TransClasses : \E key \in TransKeys : get_translation_data(struct, key)

SpecTrans == InitTrans /\ [][NextTrans]_vars


(***************************************************************************)
(* Class definition.  A class statement with Struct as a base, and         *)
(* make_struct, hand the class body (a dict from names to values) to       *)
(* _StructMetaclass.__new__, which raises TypeError or makes the class.    *)
(* declared holds the classes made, each with its schema; a default that   *)
(* was converted to a List or Map object is kept in the schema by value.   *)
(***************************************************************************)
MaxClasses == 2

ClassObj(name, schema) == [t |-> "class", name |-> name, v |-> schema]

\* attr.startswith('_')
startswith_(attr) == Spell(attr)[1] = "underscore"

\* isinstance(val, FieldDef)
IsFieldDef(val) == "type" \in DOMAIN val

\* what a class body binds a name to
BodyValues ==
    {FieldDef(IntT, NoDefault), FieldDef(IntT, Undefined), FieldDef(IntT, PyInt(0)),
     FieldDef(StrT, PyInt(100)), FieldDef(ListT(StrT), PyList(<<PyStr("x")>>)),
     FieldDef(ListT(StrT), PyList(<<PyInt(0)>>)), PyInt(0)}

\* the class bodies: a public name and a private one, each bound or not
Bodies ==
    {<<>>} \cup {[attr \in {"_p"} |-> PyInt(0)]}
           \cup {[attr \in {"a"} |-> val] : val \in BodyValues}
           \cup {[attr \in {"a", "_p"} |-> IF attr = "a" THEN val ELSE PyInt(0)] :
                    val \in BodyValues}

\* a metaclass that takes every default as it stands
_StructMetaclass_newUnconverted(name, dict) ==
    IF \E attr \in DOMAIN dict : ~startswith_(attr) /\ ~IsFieldDef(dict[attr])
    THEN TypeError
    ELSE ClassObj(name, [attr \in {a \in DOMAIN dict : ~startswith_(a)} |-> dict[attr]])

\* _StructMetaclass.__new__: both raise statements raise TypeError, so the
\* order in which iteritems() yields the body does not show in the outcome
_StructMetaclass_new(name, dict) ==
    IF \E attr \in DOMAIN dict : ~startswith_(attr) /\ ~IsFieldDef(dict[attr])
    THEN TypeError
    ELSE IF \E attr \in DOMAIN dict :
               /\ ~startswith_(attr)
               /\ HasDefault(dict[attr])
               /\ FieldDef_convert(dict[attr]) = TypeError
    THEN TypeError
    ELSE ClassObj(name,
                  [attr \in {a \in DOMAIN dict : ~startswith_(a)} |->
                      IF HasDefault(dict[attr])
                      THEN FieldDef(dict[attr].type, FieldDef_convert(dict[attr]))
                      ELSE dict[attr]])

\* class BadStruct(confix.Struct): <dict>
ClassStatement(dict) ==
    /\ Len(declared) < MaxClasses
    /\ \E r \in {_StructMetaclass_new("BadStruct", dict)} :
          /\ last' = Op("class", "BadStruct", 0, None, None, r, dict)
          /\ declared' = IF r = TypeError THEN declared ELSE Append(declared, r)
    /\ UNCHANGED <<cacheVars, pyVars, convVars, loaderVars, insts, _translation_data>>

\* make_struct(name, schema)
make_struct(schema) ==
    /\ Len(declared) < MaxClasses
    /\ \E r \in {_StructMetaclass_new("MyMessage", schema)} :
          /\ last' = Op("make_struct", "MyMessage", 0, None, None, r, schema)
          /\ declared' = IF r = TypeError THEN declared ELSE Append(declared, r)
    /\ UNCHANGED <<cacheVars, pyVars, convVars, loaderVars, insts, _translation_data>>

InitDeclare ==
    /\ CacheIdle
    /\ dict_order = "asc"
    /\ heap = InitHeap
    /\ RecIdle
    /\ ClassIdle
    /\ LoaderIdle
    /\ ConvIdle

NextDeclare ==
    \/ \E dict \in Bodies : ClassStatement(dict)
    \/ \E schema \in Bodies : make_struct(schema)

SpecDeclare == InitDeclare /\ [][NextDeclare]_vars

(***************************************************************************)
(* protobuf: the global loader.  _loader and _roots are module globals.    *)
(* load declares both global; clear_loader has no global statement, so its *)
(* assignment binds a local name and the module global keeps its value.    *)
(* What the loader finds on disk is outside the program: found is an input *)
(* of load.                                                                *)
(***************************************************************************)
MaxRoots == 2

LoaderAlreadyDefined == [t |-> "LoaderAlreadyDefined"]

ProtoFileNotFound == [t |-> "ProtoFileNotFound"]

ProtoDefFile == [t |-> "ProtoDefFile"]

\* ProtoLoader.__init__: every root is mapped when the loader is made
ProtoLoader(roots) == [t |-> "ProtoLoader", roots |-> roots]

RootPaths == {PyStr(""), PyStr("foo"), PyStr("bar")}

ProtoFiles == {PyStr("test.proto"), PyStr("bogus.proto")}

\* protobuf.load
load(proto_file, found) ==
    /\ _loader' = IF _loader = None THEN ProtoLoader(_roots) ELSE _loader
    /\ last' = Op("load", "", 0, proto_file, None,
                  IF found THEN ProtoDefFile ELSE ProtoFileNotFound, <<>>)
    /\ UNCHANGED <<cacheVars, pyVars, convVars, classVars, insts, _roots>>

\* protobuf.clear_loader
clear_loader ==
    /\ last' = Op("clear_loader", "", 0, None, None, None, <<>>)
    /\ UNCHANGED <<cacheVars, pyVars, convVars, classVars, insts, loaderVars>>

\* protobuf.add_root
add_root(path) ==
    /\ IF _loader # None
       THEN /\ last' = Op("add_root", "", 0, path, None, LoaderAlreadyDefined, <<>>)
            /\ UNCHANGED _roots
       ELSE /\ Len(_roots) < MaxRoots
            /\ _roots' = Append(_roots, path)
            /\ last' = Op("add_root", "", 0, path, None, None, <<>>)
    /\ UNCHANGED <<cacheVars, pyVars, convVars, classVars, insts, _loader>>

InitLoader ==
    /\ CacheIdle
    /\ dict_order = "asc"
    /\ heap = InitHeap
    /\ RecIdle
    /\ ClassIdle
    /\ LoaderIdle
    /\ ConvIdle

NextLoader ==
    \/ \E proto_file \in ProtoFiles : \E found \in BOOLEAN : load(proto_file, found)
    \/ clear_loader
    \/ \E path \in RootPaths : add_root(path)

SpecLoader == InitLoader /\ [][NextLoader]_vars

(***************************************************************************)
(* The JSON translator (confix/json.py).  string_to_obj parses the text    *)
(* with simplejson, which is outside the program: the parsed tree is the   *)
(* input here.  json.intermediate_to_obj is a function of its own, not the *)
(* one of the core: without a target type its dict branch iterates the     *)
(* dict itself, so each "key, val" pair is unpacked from the characters of *)
(* a key; with a Struct target it calls dict_to_struct with the names      *)
(* dict_val and struct_type, which are bound nowhere in the function or    *)
(* the module.                                                             *)
(***************************************************************************)
ValueError == [t |-> "ValueError"]

NameError == [t |-> "NameError"]

\* the characters of a name
Chars(name) ==
    CASE name = "_p" -> <<"_", "p">>
      [] name = "k-1" -> <<"k", "-", "1">>
      [] name = "inner" -> <<"i", "n", "n", "e", "r">>
      [] OTHER -> <<name>>

\* the last of the dict keys S that iteration yields
LastKey(S) == CHOOSE n \in S : \A o \in S : Earlier(KeyRank(o), KeyRank(n))

\* dict((key, intermediate_to_obj(val)) for key, val in intermediate): a key of
\* two characters unpacks into key and val, and val, a string, stays as it is;
\* a key of any other length raises ValueError
json_dict(keys) ==
    IF \E k \in keys : Len(Chars(k.v)) # 2 THEN ValueError
    ELSE PyDict([c \in {PyStr(Chars(k.v)[1]) : k \in keys} |->
                    PyStr(Chars(LastKey({k \in keys : Chars(k.v)[1] = c.v}).v)[2])])

\* [intermediate_to_obj(elem) for elem in intermediate]
json_list(elems) ==
    IF \E i \in DOMAIN elems : elems[i].t = "ValueError" THEN ValueError ELSE PyList(elems)

RECURSIVE json_intermediate_to_obj(_, _)
\* json.intermediate_to_obj
json_intermediate_to_obj(intermediate, confix_type) ==
    IF confix_type = NoneT
    THEN IF intermediate.t = "list"
         THEN json_list([i \in 1..Len(intermediate.v) |->
                            json_intermediate_to_obj(intermediate.v[i], NoneT)])
         ELSE IF intermediate.t = "dict"
         THEN json_dict(DOMAIN intermediate.v)
         ELSE intermediate
    ELSE IF confix_type.k = "List"
         THEN Call("ListBase_convert", confix_type, intermediate, "convert_with_dicts")
    ELSE IF confix_type.k = "Map"
         THEN Call("MapBase_convert", confix_type, intermediate, "convert_with_dicts")
    ELSE IF IsStruct(confix_type)
         THEN NameError
    ELSE TypeError

JsonKeys == {PyStr("a"), PyStr("b"), PyStr("_p")}

JsonValues == {PyInt(0), PyInt(100), PyStr("x")}

\* parsed JSON objects, and arrays of one such object
JsonObjects == {PyDict(items) : items \in UNION {[K -> JsonValues] : K \in SUBSET JsonKeys}}

JsonTrees == JsonObjects \cup {PyList(<<o>>) : o \in JsonObjects}

JsonTargets == {NoneT, StructT("JsonTestStruct"), ListT(IntT)}

\* json.string_to_obj, after simplejson.loads
string_to_obj ==
    /\ conv.stage = "tree"
    /\ conv' = [conv EXCEPT !.stage = "json_done",
                            !.result = json_intermediate_to_obj(conv.flat, conv.type)]
    /\ UNCHANGED <<cacheVars, pyVars, recVars, classVars, loaderVars>>

InitJson ==
    /\ CacheIdle
    /\ dict_order \in {"asc", "desc"}
    /\ heap = InitHeap
    /\ RecIdle
    /\ ClassIdle
    /\ LoaderIdle
    /\ conv \in {Conv("tree", type, None, tree, None) : type \in JsonTargets, tree \in JsonTrees}

NextJson == string_to_obj

SpecJson == InitJson /\ [][NextJson]_vars

(***************************************************************************)
(* convert of a generic type applied to a List or Map object.  The source  *)
(* is the last object of the heap and conv.flat refers to it; an object    *)
(* that convert makes is put on the heap behind it, so that the result is  *)
(* a reference too, and the object written through the result is the last  *)
(* of the heap either way.                                                 *)
(***************************************************************************)
GenericTypes == {ListT(IntT), ListT(StrT), MapT(StrT, IntT), MapT(StrT, ListT(IntT))}

GenericObjs ==
    {ListObj(ListT(IntT), <<>>), ListObj(ListT(IntT), <<PyInt(0)>>),
     MapObj(MapT(StrT, IntT), <<>>), MapObj(MapT(StrT, IntT), [k \in {PyStr("a")} |-> PyInt(0)])}

\* conv.type.convert(value, convert_func)
GenericConvert(convert_func) ==
    /\ conv.stage = "object"
    /\ \E r \in {Call(IF conv.type.k = "List" THEN "ListBase_convert" ELSE "MapBase_convert",
                      conv.type, conv.flat, convert_func)} :
          IF IsError(r) \/ r.t = "ref"
          THEN /\ conv' = [conv EXCEPT !.stage = "converted", !.result = r]
               /\ UNCHANGED heap
          ELSE /\ conv' = [conv EXCEPT !.stage = "converted", !.result = Ref(Len(heap) + 1)]
               /\ heap' = Append(heap, r)
    /\ UNCHANGED <<cacheVars, recVars, classVars, loaderVars, dict_order>>

\* result[key] = val
WriteMap(key, val) ==
    /\ conv.stage = "converted"
    /\ conv.result.t = "ref"
    /\ heap[conv.result.v].t = "Map"
    /\ MapBase_setitem(key, val)

\* result.append(val)
WriteList(val) ==
    /\ conv.stage = "converted"
    /\ conv.result.t = "ref"
    /\ heap[conv.result.v].t = "List"
    /\ ListBase_append(conv.result.v, val)

InitGeneric ==
    /\ CacheIdle
    /\ dict_order = "asc"
    /\ heap \in {Append(InitHeap, obj) : obj \in GenericObjs}
    /\ RecIdle
    /\ ClassIdle
    /\ LoaderIdle
    /\ conv \in {Conv("object", type, None, Ref(Len(heap)), None) : type \in GenericTypes}

NextGeneric ==
    \/ \E convert_func \in {"_convert", "convert_with_dicts"} : GenericConvert(convert_func)
    \/ \E key \in MapKeys : \E val \in MapValues \ {None} : WriteMap(key, val)
    \/ \E val \in ElemValues : WriteList(val)

SpecGeneric == InitGeneric /\ [][NextGeneric]_vars

(***************************************************************************)
(* The life of one container: it is made by calling the generic type with  *)
(* a sequence or a mapping, or by convert of an untyped list or dict, and  *)
(* is then written to.  The container is the last object of the heap.      *)
(***************************************************************************)
\* cls(elems) for a List type: ListBase.__init__ is self._elems = list(elems)
NewList(cls, elems) ==
    /\ Len(heap) = Len(InitHeap)
    /\ heap' = Append(heap, ListObj(cls, elems))
    /\ last' = Op("new", "", Len(heap) + 1, None, PyList(elems), None, <<>>)
    /\ UNCHANGED <<cacheVars, convVars, classVars, loaderVars, dict_order, insts>>

\* cls(normal_map) for a Map type
NewMap(cls, normal_map) ==
    /\ Len(heap) = Len(InitHeap)
    /\ \E r \in {MapBase_init(cls, normal_map, "_convert")} :
          IF IsError(r)
          THEN /\ last' = Op("new", "", 0, None, PyDict(normal_map), r, <<>>)
               /\ UNCHANGED heap
          ELSE /\ heap' = Append(heap, r)
               /\ last' = Op("new", "", Len(heap) + 1, None, PyDict(normal_map), None, <<>>)
    /\ UNCHANGED <<cacheVars, convVars, classVars, loaderVars, dict_order, insts>>

\* cls.convert(value) for an untyped list or dict
ConvertNew(cls, value) ==
    /\ Len(heap) = Len(InitHeap)
    /\ \E r \in {_convert(cls, value, "None")} :
          IF IsError(r)
          THEN /\ last' = Op("convert", "", 0, None, value, r, <<>>)
               /\ UNCHANGED heap
          ELSE /\ heap' = Append(heap, r)
               /\ last' = Op("convert", "", Len(heap) + 1, None, value, None, <<>>)
    /\ UNCHANGED <<cacheVars, convVars, classVars, loaderVars, dict_order, insts>>

InitContainer ==
    /\ CacheIdle
    /\ dict_order \in {"asc", "desc"}
    /\ heap = InitHeap
    /\ RecIdle
    /\ ClassIdle
    /\ LoaderIdle
    /\ ConvIdle

NextContainer ==
    \/ \E cls \in {ListT(IntT), ListT(StrT)} : \E elems \in Lists(ElemValues) :
          NewList(cls, elems)
    \/ \E cls \in MapTypes : \E normal_map \in Dicts(MapKeys, MapValues \ {None}) :
          NewMap(cls, normal_map)
    \/ \E cls \in {ListT(IntT), ListT(StrT)} : \E elems \in Lists(ElemValues) :
          ConvertNew(cls, PyList(elems))
    \/ \E cls \in MapTypes : \E normal_map \in Dicts(MapKeys, MapValues \ {None}) :
          ConvertNew(cls, PyDict(normal_map))
    \/ \E val \in ElemValues :
          heap[Len(heap)].t = "List" /\ ListBase_append(Len(heap), val)
    \/ \E val \in ElemValues : \E index \in 1..MaxLen :
          /\ heap[Len(heap)].t = "List"
          /\ index <= Len(heap[Len(heap)].v)
          /\ ListBase_setitem(Len(heap), index, val)
    \/ \E key \in MapKeys : \E val \in MapValues \ {None} :
          heap[Len(heap)].t = "Map" /\ MapBase_setitem(key, val)
    \/ \E key \in MapKeys : \E default \in MapValues \ {None} :
          heap[Len(heap)].t = "Map" /\ MapBase_setdefault(key, default)

SpecContainer == InitContainer /\ [][NextContainer]_vars

(***************************************************************************)
(* Type inference over dicts whose keys differ in their spelling: a plain  *)
(* name, names with a leading underscore, with a hyphen and with a newline *)
(* at the end, and a key that is not a string.                             *)
(***************************************************************************)
LegalKeys == {PyStr("a"), PyStr("b"), PyStr("_p"), PyStr("k-1"), PyStr("a\n"), PyInt(0)}

LegalTrees ==
    {PyDict(items) : items \in
        UNION {[K -> {PyInt(0), PyStr("x")}] :
                  K \in {S \in SUBSET LegalKeys : Cardinality(S) <= MaxKeys}}}

InitLegal ==
    /\ CacheIdle
    /\ dict_order \in {"asc", "desc"}
    /\ heap = InitHeap
    /\ RecIdle
    /\ ClassIdle
    /\ LoaderIdle
    /\ conv \in {Conv("tree", NoneT, None, tree, None) : tree \in LegalTrees}

SpecLegal == InitLegal /\ [][NextInfer]_vars

InitRec ==
    /\ CacheIdle
    /\ dict_order \in {"asc", "desc"}
    /\ heap = InitHeap
    /\ RecIdle
    /\ ClassIdle
    /\ LoaderIdle
    /\ ConvIdle

NextRec ==
    \/ \E cls \in RecClasses : \E kwargs \in Kwargs(cls) : New(cls, kwargs)
    \/ \E i \in 1..Len(insts) : \E attr \in ArgNames(insts[i].type) :
          \E val \in ArgValues(insts[i].type) : SetAttr(i, attr, val)
    \/ \E o \in Reachable : \E val \in ElemValues : ListBase_append(o, val)
    \/ \E o \in Reachable : \E index \in 1..Len(heap[o].v) : \E val \in ElemValues :
          ListBase_setitem(o, index, val)

SpecRec == InitRec /\ [][NextRec]_vars

(***************************************************************************)
(* The specifications of the generic type factory.                         *)
(***************************************************************************)
InitCache ==
    /\ CacheIdle
    /\ dict_order = "asc"
    /\ heap = InitHeap
    /\ RecIdle
    /\ ClassIdle
    /\ LoaderIdle
    /\ ConvIdle

FactoryStep(th) ==
    \/ \E e \in TypeIds : List(th, e)
    \/ \E k \in TypeIds : \E v \in TypeIds : Map(th, k, v)
    \/ CacheLookupHit(th)
    \/ CacheLookupMiss(th)
    \/ CreateType(th)
    \/ CachePublish(th)

\* one thread: every call runs to its return before the next one starts
NextSeq == FactoryStep(MainThread)

SpecSeq == InitCache /\ [][NextSeq]_vars

\* several threads interleave at the lookup, the creation and the store
NextConc == \E th \in Threads : FactoryStep(th)

SpecConc == InitCache /\ [][NextConc]_vars

(***************************************************************************)
(* C1: in a sequential run, any two calls of List()/Map() made with equal  *)
(* type parameters returned the identical type object, whatever other      *)
(* parameterizations were requested between them.                          *)
(***************************************************************************)
C1_SameParamsSameType ==
    \A i \in 1..Len(log) : \A j \in 1..Len(log) :
        log[i].key = log[j].key => log[i].type = log[j].type

\* a List key and a Map key each returned twice, with another key in between
C1_Witness ==
    /\ \E i \in 1..Len(log) : \E j \in 1..Len(log) : \E k \in 1..Len(log) :
          /\ i < j /\ j < k
          /\ log[i].key = log[k].key
          /\ log[j].key # log[i].key
          /\ log[i].key.base = "ListBase"
          /\ log[j].key.base = "MapBase"
          /\ log[i].type = log[k].type

(***************************************************************************)
(* C2: when threads call List()/Map() concurrently with the same           *)
(* parameters, every caller returns the same type object, and that object  *)
(* is the one the cache holds for the key.                                 *)
(***************************************************************************)
C2_ConcurrentCallersConverge ==
    /\ \A i \in 1..Len(log) : \A j \in 1..Len(log) :
          log[i].key = log[j].key => log[i].type = log[j].type
    /\ \A i \in 1..Len(log) :
          CacheHas(log[i].key) /\ _generic_cache[log[i].key] = log[i].type

(***************************************************************************)
(* Vocabulary of the record claims.                                        *)
(***************************************************************************)
OptionalFields(cls) == {f \in DOMAIN ClassBody(cls) : ClassBody(cls)[f].default = Undefined}

RequiredFields(cls) == {f \in DOMAIN ClassBody(cls) : ClassBody(cls)[f].default = NoDefault}

\* keyword arguments whose names are fields and whose values have the fields' types
ValidKwargs(cls, kwargs) ==
    \A k \in DOMAIN kwargs :
        InSchema(cls, k) /\ IsInstance(kwargs[k], ClassBody(cls)[k.v].type)

\* the attribute map of an instance with every container written out
AttrMap(obj) == _to_intermediate(obj).v

(***************************************************************************)
(* C3: an instance constructed without a field that has a declared default *)
(* D reads back D for that field, whenever in a run it is constructed.     *)
(***************************************************************************)
C3_DefaultReadsBack ==
    (last.op = "new" /\ last.res = None) =>
        \A f \in DefaultedFields(last.cls) :
            PyStr(f) \notin DOMAIN last.val.v =>
                cmp(Struct_getattr(insts[last.target], PyStr(f)),
                    ClassBody(last.cls)[f].default) = 0

(***************************************************************************)
(* C4: a construction whose keyword arguments name fields of the schema    *)
(* and carry values of the declared types succeeds, and each field named   *)
(* reads back the value supplied, a default notwithstanding.               *)
(***************************************************************************)
C4_KwargsReadBack ==
    (last.op = "new" /\ ValidKwargs(last.cls, last.val.v)) =>
        /\ last.res = None
        /\ \A k \in DOMAIN last.val.v :
              Struct_getattr(insts[last.target], k) = last.val.v[k]

\* a TestStruct constructed with a = 0 over the default 100
C4_Witness ==
    /\ last.op = "new"
    /\ last.cls = "TestStruct"
    /\ last.res = None
    /\ PyStr("a") \in DOMAIN last.val.v
    /\ last.val.v[PyStr("a")] = PyInt(0)
    /\ Struct_getattr(insts[last.target], PyStr("a")) = PyInt(0)

(***************************************************************************)
(* C5: writing a name that is not in the schema, in the constructor or in  *)
(* a later assignment, raises AttributeError on a strict record (any class *)
(* but LooseStruct) and leaves every instance as it was; on a loose record *)
(* it succeeds, the raw value is stored and reading the name returns it.   *)
(***************************************************************************)
C5_UnknownField ==
    [][/\ (last'.op = "new" /\ \E k \in DOMAIN last'.val.v : ~InSchema(last'.cls, k)) =>
             IF last'.cls # "LooseStruct"
             THEN /\ IsError(last'.res)
                  /\ (\A k \in DOMAIN last'.val.v :
                         InSchema(last'.cls, k) =>
                             IsInstance(last'.val.v[k], ClassBody(last'.cls)[k.v].type))
                        => last'.res = AttributeError
                  /\ insts' = insts
                  /\ heap' = heap
             ELSE /\ last'.res = None
                  /\ Len(insts') = Len(insts) + 1
                  /\ \A k \in DOMAIN last'.val.v :
                        Struct_getattr(insts'[last'.target], k) = last'.val.v[k]
       /\ (last'.op = "setattr" /\ ~InSchema(last'.cls, last'.key)) =>
             IF last'.cls # "LooseStruct"
             THEN /\ last'.res = AttributeError
                  /\ insts' = insts
                  /\ heap' = heap
             ELSE /\ last'.res = None
                  /\ Struct_getattr(insts'[last'.target], last'.key) = last'.val
                  /\ \A k \in DOMAIN insts[last'.target].v \ {last'.key} :
                        Struct_getattr(insts'[last'.target], k) = insts[last'.target].v[k]
      ]_vars

\* a strict instance that refused the name x and kept its attributes, next to
\* a loose instance that holds a value under x
C5_Witness ==
    /\ last.op = "setattr"
    /\ last.cls = "TestStruct"
    /\ last.key = PyStr("x")
    /\ last.res = AttributeError
    /\ last.pre # <<>>
    /\ insts[last.target].v = last.pre
    /\ \E j \in 1..Len(insts) :
          /\ insts[j].type = "LooseStruct"
          /\ Struct_getattr(insts[j], PyStr("x")) = PyInt(0)

(***************************************************************************)
(* C6: a field whose default is Undefined is absent until assigned, and    *)
(* reading it then raises AttributeError; assigning a value of its type    *)
(* makes it read back that value; assigning a value of another type raises *)
(* TypeError and leaves the field absent, or at its previous value.        *)
(***************************************************************************)
C6_OptionalField ==
    /\ (last.op = "new" /\ last.res = None) =>
          \A f \in OptionalFields(last.cls) :
              PyStr(f) \notin DOMAIN last.val.v =>
                  Struct_getattr(insts[last.target], PyStr(f)) = AttributeError
    /\ (last.op = "setattr" /\ InSchema(last.cls, last.key)
           /\ last.key.v \in OptionalFields(last.cls)) =>
          IF IsInstance(last.val, ClassBody(last.cls)[last.key.v].type)
          THEN /\ last.res = None
               /\ Struct_getattr(insts[last.target], last.key) = last.val
          ELSE /\ last.res = TypeError
               /\ insts[last.target].v = last.pre
               /\ Struct_getattr(insts[last.target], last.key) =
                     IF last.key \in DOMAIN last.pre THEN last.pre[last.key]
                     ELSE AttributeError

\* u held 0 when a string was assigned to it; the assignment raised and u is 0
C6_Witness ==
    /\ last.op = "setattr"
    /\ last.cls = "TestStruct"
    /\ last.key = PyStr("u")
    /\ last.val = PyStr("x")
    /\ last.res = TypeError
    /\ last.key \in DOMAIN last.pre
    /\ last.pre[last.key] = PyInt(0)
    /\ Struct_getattr(insts[last.target], last.key) = PyInt(0)

(***************************************************************************)
(* C7: a construction that leaves out a field declared NoDefault does not  *)
(* fail for it; the field is absent, reading it raises AttributeError, and *)
(* it stays so until an assignment to that field of that instance succeeds.*)
(***************************************************************************)
C7_RequiredFieldIsLazy ==
    [][/\ (last'.op = "new" /\ ValidKwargs(last'.cls, last'.val.v)) =>
             /\ last'.res = None
             /\ \A f \in RequiredFields(last'.cls) :
                   PyStr(f) \notin DOMAIN last'.val.v =>
                       Struct_getattr(insts'[last'.target], PyStr(f)) = AttributeError
       /\ \A i \in 1..Len(insts) : \A f \in RequiredFields(insts[i].type) :
             Struct_getattr(insts[i], PyStr(f)) = AttributeError =>
                 \/ Struct_getattr(insts'[i], PyStr(f)) = AttributeError
                 \/ /\ last'.op = "setattr"
                    /\ last'.target = i
                    /\ last'.key = PyStr(f)
                    /\ last'.res = None
      ]_vars

\* a JsonTestStruct constructed with a but without b: reading b raises
C7_Witness ==
    /\ last.op = "new"
    /\ last.cls = "JsonTestStruct"
    /\ last.res = None
    /\ DOMAIN last.val.v = {PyStr("a")}
    /\ Struct_getattr(insts[last.target], PyStr("a")) = PyInt(0)
    /\ Struct_getattr(insts[last.target], PyStr("b")) = AttributeError

(***************************************************************************)
(* C8: two instances of one record type compare equal exactly when their   *)
(* attribute maps, defaults included, have the same keys and equal values, *)
(* however and in whatever order the attributes were written.              *)
(***************************************************************************)
C8_EqualIffSameAttrs ==
    \A i \in 1..Len(insts) : \A j \in 1..Len(insts) :
        insts[i].type = insts[j].type =>
            (cmp(insts[i], insts[j]) = 0 <=> AttrMap(insts[i]) = AttrMap(insts[j]))

\* two equal TestStructs: one was given a = 100 by an assignment over a = 0
\* after its u was set, the other holds the same attributes
C8_Witness ==
    /\ Len(insts) = 2
    /\ insts[1].type = "TestStruct"
    /\ insts[2].type = "TestStruct"
    /\ last.op = "setattr"
    /\ last.key = PyStr("a")
    /\ last.val = PyInt(100)
    /\ last.res = None
    /\ PyStr("u") \in DOMAIN last.pre
    /\ last.pre[PyStr("a")] = PyInt(0)
    /\ cmp(insts[1], insts[2]) = 0
    /\ cmp(insts[2], insts[1]) = 0

(***************************************************************************)
(* C9, as stated: two instances of different strict record types are never *)
(* equal, even when their attribute maps are equal.                        *)
(***************************************************************************)
C9_DifferentTypesDiffer ==
    \A i \in 1..Len(insts) : \A j \in 1..Len(insts) :
        (_strict(insts[i].type) /\ _strict(insts[j].type)
            /\ insts[i].type # insts[j].type) => cmp(insts[i], insts[j]) # 0

(***************************************************************************)
(* C9, amended: the record type takes no part in the comparison; two       *)
(* instances of different record types are equal exactly when their        *)
(* attribute maps are equal.                                               *)
(***************************************************************************)
C9_TypeNotCompared ==
    \A i \in 1..Len(insts) : \A j \in 1..Len(insts) :
        insts[i].type # insts[j].type =>
            (cmp(insts[i], insts[j]) = 0 <=> AttrMap(insts[i]) = AttrMap(insts[j]))

\* a TestStruct and a JsonTestStruct, both with a = 0 and nothing else, are equal
C9_Witness ==
    \E i \in 1..Len(insts) : \E j \in 1..Len(insts) :
        /\ insts[i].type = "TestStruct"
        /\ insts[j].type = "JsonTestStruct"
        /\ DOMAIN insts[i].v = {PyStr("a")}
        /\ cmp(insts[i], insts[j]) = 0
        /\ cmp(insts[j], insts[i]) = 0

(***************************************************************************)
(* C10: for every target type T and every value x of type T, the tree      *)
(* that _to_intermediate makes of x is converted by                        *)
(* intermediate_to_obj(tree, T) without an exception into a value equal    *)
(* to x.                                                                   *)
(***************************************************************************)
C10_RoundTrip ==
    conv.stage = "done" => (~IsError(conv.result) /\ cmp(conv.result, conv.x) = 0)

(***************************************************************************)
(* C11: without a target type, intermediate_to_obj turns a dict into a     *)
(* LooseStruct exactly when every key of the dict is a legal attribute     *)
(* name, and otherwise into a dict with the same keys whose values are     *)
(* each converted without a target type; the empty dict and dicts that mix *)
(* legal and illegal keys included.                                        *)
(***************************************************************************)
C11_LooseIffAllKeysLegal ==
    (conv.stage = "done" /\ conv.type = NoneT /\ conv.flat.t = "dict") =>
        IF \A k \in DOMAIN conv.flat.v : ATTR_NAME_RX_match(k.v)
        THEN /\ conv.result.t = "Struct"
             /\ conv.result.type = "LooseStruct"
             /\ DOMAIN conv.result.v = DOMAIN conv.flat.v
        ELSE /\ conv.result.t = "dict"
             /\ DOMAIN conv.result.v = DOMAIN conv.flat.v
             /\ \A k \in DOMAIN conv.flat.v :
                   conv.result.v[k] = intermediate_to_obj(conv.flat.v[k], NoneT, "None")

(***************************************************************************)
(* C12: intermediate_to_obj with a record type T as the target returns a   *)
(* source that is an instance of T unchanged; makes of a dict a new        *)
(* instance of T whose attributes are the defaults of T and the dict's     *)
(* values, each converted to the type of its field; and raises             *)
(* AttributeError for a dict with a key that is no field of a strict T.    *)
(***************************************************************************)
C12_ConvertToRecord ==
    (conv.stage = "done" /\ conv.type \in StructTargets) =>
        /\ IsInstance(conv.flat, conv.type) => conv.result = conv.flat
        /\ conv.flat.t = "dict" =>
              LET fields == {k \in DOMAIN conv.flat.v : k.v \in DOMAIN ClassBody(conv.type.name)}
                  field_val == [k \in fields |->
                                   intermediate_to_obj(conv.flat.v[k],
                                                       ClassBody(conv.type.name)[k.v].type,
                                                       "None")]
              IN  IF \E k \in fields : IsError(field_val[k])
                  THEN IsError(conv.result)
                  ELSE IF fields # DOMAIN conv.flat.v
                  THEN conv.result = AttributeError
                  ELSE /\ conv.result.t = "Struct"
                       /\ conv.result.type = conv.type.name
                       /\ DOMAIN conv.result.v =
                             fields \cup {PyStr(f) : f \in DefaultedFields(conv.type.name)}
                       /\ \A k \in fields : conv.result.v[k] = field_val[k]

(***************************************************************************)
(* C13: on a List object, append and the indexed write store the value     *)
(* when it is of the element type (the list then holds it at the end, or   *)
(* at the index, and is otherwise as before); for a value that does not    *)
(* convert to the element type they raise TypeError and the elements and   *)
(* the length of the list are as before.                                   *)
(***************************************************************************)
C13_ListWritesChecked ==
    (last.op \in {"append", "setitem"}) =>
        IF IsInstance(last.val, heap[last.target].type.elem)
        THEN /\ last.res = None
             /\ heap[last.target].v =
                   IF last.op = "append" THEN Append(last.pre, last.val)
                   ELSE [last.pre EXCEPT ![last.key.v] = last.val]
        ELSE /\ last.res = TypeError
             /\ heap[last.target].v = last.pre
             /\ Len(heap[last.target].v) = Len(last.pre)

\* an int was written over the string at index 1 of a List(str): it raised
\* and the string is still there
C13_Witness ==
    /\ last.op = "setitem"
    /\ last.val = PyInt(0)
    /\ last.res = TypeError
    /\ Len(last.pre) = 1
    /\ heap[last.target].v = <<PyStr("x")>>

(***************************************************************************)
(* Vocabulary of C14: the convert_func that was applied, and what it makes *)
(* of each item of the source.                                             *)
(***************************************************************************)
AppliedConvertFunc ==
    IF conv.stage = "converted" THEN "_convert" ELSE "convert_with_dicts"

ConvertedItems ==
    [i \in 1..Len(conv.flat.v) |->
        Call(AppliedConvertFunc, conv.type.elem, conv.flat.v[i], "None")]

\* the source is returned itself if it is of the list type, a list whose
\* items all convert becomes a new List of the converted items, in order,
\* and a source that is neither raises TypeError
C14_PassOrBuild ==
    /\ IsInstance(conv.flat, conv.type) => conv.result = conv.flat
    /\ (~IsInstance(conv.flat, conv.type) /\ conv.flat.t # "list") =>
          conv.result = TypeError
    /\ (conv.flat.t = "list" /\ \A i \in DOMAIN ConvertedItems : ~IsError(ConvertedItems[i])) =>
          /\ conv.result.t = "List"
          /\ conv.result.type = conv.type
          /\ Len(conv.result.v) = Len(conv.flat.v)
          /\ \A i \in DOMAIN ConvertedItems : conv.result.v[i] = ConvertedItems[i]

KeyOfKeyType == IsInstance(last.key, heap[TheMap].type.key)

ValType == heap[TheMap].type.val

(***************************************************************************)
(* C15: setdefault(key, default) on a Map without the key converts the     *)
(* default to the value type, stores it under the key, returns it and      *)
(* changes no other item; on a Map with the key it returns the value that  *)
(* is there and leaves the Map as it was.                                  *)
(***************************************************************************)
C15_SetDefault ==
    (last.op = "setdefault" /\ KeyOfKeyType) =>
        IF last.key \in DOMAIN last.pre
        THEN /\ last.res = last.pre[last.key]
             /\ heap[TheMap].v = last.pre
        ELSE /\ last.res = _convert(ValType, last.val, "None")
             /\ IF IsError(last.res)
                THEN heap[TheMap].v = last.pre
                ELSE /\ DOMAIN heap[TheMap].v = DOMAIN last.pre \cup {last.key}
                     /\ heap[TheMap].v[last.key] = last.res
                     /\ \A k \in DOMAIN last.pre : heap[TheMap].v[k] = last.pre[k]

\* setdefault("a", [0]) on a Map that holds [] under "a": it returned [] and
\* the Map is as before
C15_Witness ==
    /\ last.op = "setdefault"
    /\ last.key = PyStr("a")
    /\ last.val = PyList(<<PyInt(0)>>)
    /\ last.key \in DOMAIN last.pre
    /\ last.res = ListObj(ListT(IntT), <<>>)
    /\ heap[TheMap].v = last.pre

(***************************************************************************)
(* C16: get(key, default) never changes the Map; it returns the value      *)
(* stored under the key, or without the key the default converted to the   *)
(* value type (None when no default is given); for a key that is not of    *)
(* the key type it raises TypeError.                                       *)
(***************************************************************************)
C16_GetIsPure ==
    (last.op = "get") =>
        /\ heap[TheMap].v = last.pre
        /\ last.res =
              IF ~KeyOfKeyType THEN TypeError
              ELSE IF last.key \in DOMAIN last.pre THEN last.pre[last.key]
              ELSE IF last.val = None THEN None
              ELSE _convert(ValType, last.val, "None")

\* get("b", [0]) on a Map without "b": it returned a List with 0 and the Map
\* still has no "b"
C16_Witness ==
    /\ last.op = "get"
    /\ last.key = PyStr("b")
    /\ last.val = PyList(<<PyInt(0)>>)
    /\ last.res = ListObj(ListT(IntT), <<PyInt(0)>>)
    /\ last.pre # <<>>
    /\ last.key \notin DOMAIN heap[TheMap].v

(***************************************************************************)
(* C17: translation data is a store per record type.  Before any call      *)
(* every lookup fails with KeyError; a set_translation_data(T, k, v) makes *)
(* the lookup of k on T give v and leaves the lookup of every other pair   *)
(* of a record type and a key as it was; get_translation_data(T, k) gives  *)
(* what the lookup of k on T gives and changes no lookup.  So the value    *)
(* read for T is the one stored last for T, and never one stored for       *)
(* another record type.                                                    *)
(***************************************************************************)
C17_PerTypeStore ==
    /\ \A struct \in TransClasses : \A key \in TransKeys :
          dict_getitem(TranslationData(struct), key) = KeyError
    /\ [][(last'.op = "set_translation_data" =>
              \A struct \in TransClasses : \A key \in TransKeys :
                 dict_getitem(TranslationData(struct), key)' =
                    IF struct = last'.cls /\ key = last'.key
                    THEN last'.val
                    ELSE dict_getitem(TranslationData(struct), key))
          /\ (last'.op = "get_translation_data" =>
                 /\ last'.res = dict_getitem(TranslationData(last'.cls), last'.key)
                 /\ \A struct \in TransClasses : \A key \in TransKeys :
                       dict_getitem(TranslationData(struct), key)' =
                          dict_getitem(TranslationData(struct), key))]_vars

(***************************************************************************)
(* C18: the schema of a record type is immutable once the type is defined. *)
(* The fields and their types are fixed by ClassBody; what an operation on *)
(* an instance or a container can reach is the value of a default.  In     *)
(* every state, every concrete default of every schema is the value that   *)
(* the class definition put there.                                         *)
(***************************************************************************)
C18_SchemaImmutable ==
    \A cls \in StructNames : \A attr \in DOMAIN _schema(cls) :
       /\ _schema(cls)[attr].type = ClassBody(cls)[attr].type
       /\ HasDefault(ClassBody(cls)[attr]) =>
             Deref(_schema(cls)[attr].default) = FieldDef_convert(ClassBody(cls)[attr])
       /\ ~HasDefault(ClassBody(cls)[attr]) =>
             _schema(cls)[attr].default = ClassBody(cls)[attr].default

(***************************************************************************)
(* C19: a class definition whose body binds a public name to something     *)
(* that is not a FieldDef, or to a FieldDef whose concrete default does    *)
(* not convert to the field type, raises TypeError and makes no class; and *)
(* in every class that was made, every concrete default of the schema is a *)
(* value of the type of its field.                                         *)
(***************************************************************************)
C19_DeclarationChecked ==
    /\ [](\A i \in DOMAIN declared : \A attr \in DOMAIN declared[i].v :
             declared[i].v[attr].default \notin {Undefined, NoDefault} =>
                IsInstance(declared[i].v[attr].default, declared[i].v[attr].type))
    /\ [][(/\ last'.op \in {"class", "make_struct"}
           /\ \E attr \in DOMAIN last'.pre :
                 /\ Spell(attr)[1] # "underscore"
                 /\ \/ "default" \notin DOMAIN last'.pre[attr]
                    \/ /\ last'.pre[attr].default \notin {Undefined, NoDefault}
                       /\ _convert(last'.pre[attr].type, last'.pre[attr].default, "None")
                             = TypeError)
          => (last'.res = TypeError /\ declared' = declared)]_vars

\* a class exists, and the definition of one with a str field of default 100 has
\* just raised
C19_Witness ==
    /\ last.op = "class"
    /\ last.res = TypeError
    /\ "a" \in DOMAIN last.pre
    /\ last.pre["a"] = FieldDef(StrT, PyInt(100))
    /\ declared # <<>>

(***************************************************************************)
(* C20: the global loader.  clear_loader leaves no global loader behind    *)
(* (and the roots as they were); add_root raises LoaderAlreadyDefined and  *)
(* leaves the roots alone exactly when there is a global loader, and       *)
(* otherwise appends the path; load makes a loader from the current roots  *)
(* when there is none and keeps the one there is.  So an add_root that     *)
(* follows a clear_loader succeeds, and the load after it builds a loader  *)
(* from the roots of then.                                                 *)
(***************************************************************************)
C20_ClearLoaderClears ==
    [][/\ last'.op = "clear_loader" => (_loader' = None /\ _roots' = _roots)
       /\ last'.op = "add_root" =>
             /\ _loader' = _loader
             /\ IF _loader # None
                THEN last'.res = LoaderAlreadyDefined /\ _roots' = _roots
                ELSE last'.res = None /\ _roots' = Append(_roots, last'.key)
       /\ last'.op = "load" =>
             /\ _roots' = _roots
             /\ _loader' = IF _loader = None THEN ProtoLoader(_roots) ELSE _loader]_vars

(***************************************************************************)
(* C21: the JSON translator's string_to_obj, applied to a parsed JSON      *)
(* object whose keys are all field names, gives without a target type a    *)
(* LooseStruct with exactly the object's members as attributes, and with a *)
(* record type whose fields the members are, an instance equal to the one  *)
(* that the constructor makes of the same values.                          *)
(***************************************************************************)
C21_JsonObjectToRecord ==
    (conv.stage = "json_done" /\ conv.flat.t = "dict") =>
        /\ (conv.type = NoneT /\ \A k \in DOMAIN conv.flat.v : k.v \in {"a", "b"}) =>
              conv.result = StructObj("LooseStruct", conv.flat.v)
        /\ (/\ IsStruct(conv.type)
            /\ \A k \in DOMAIN conv.flat.v : k.v \in DOMAIN ClassBody(conv.type.name)
            /\ Struct_init(conv.type.name, conv.flat.v).t = "Struct") =>
              cmp(conv.result, Struct_init(conv.type.name, conv.flat.v)) = 0

(***************************************************************************)
(* C22: convert of a generic type, applied to an object that is an         *)
(* instance of that very type, returns the object itself and not a copy:   *)
(* the result refers to the source, for List and for Map types, and what   *)
(* is written through the result afterwards is read through the source.    *)
(***************************************************************************)
C22_ConvertReturnsSameObject ==
    (conv.stage = "converted" /\ IsInstance(conv.flat, conv.type)) =>
        /\ conv.result = conv.flat
        /\ Deref(conv.result) = Deref(conv.flat)

(***************************************************************************)
(* C23: in every state every element of every List object is an instance   *)
(* of the element type of its List type, and every key and value of every  *)
(* Map object is an instance of the key type and of the value type of its  *)
(* Map type, however the object was made or written to.                    *)
(***************************************************************************)
C23_ContainersTyped ==
    \A o \in DOMAIN heap :
       /\ heap[o].t = "List" =>
             \A i \in DOMAIN heap[o].v : IsInstance(heap[o].v[i], heap[o].type.elem)
       /\ heap[o].t = "Map" =>
             \A k \in DOMAIN heap[o].v :
                /\ IsInstance(k, heap[o].type.key)
                /\ IsInstance(heap[o].v[k], heap[o].type.val)

(***************************************************************************)
(* C24: in a sequential run the generic-type cache only grows: a step      *)
(* leaves every key of the cache in the cache with the type object it had; *)
(* and calls made with different keys (another constructor or other type   *)
(* parameters) never returned the same type object.                        *)
(***************************************************************************)
C24_CacheOnlyGrows ==
    /\ [][\A key \in DOMAIN _generic_cache :
             /\ key \in DOMAIN _generic_cache'
             /\ _generic_cache'[key] = _generic_cache[key]]_vars
    /\ [](\A i \in 1..Len(log) : \A j \in 1..Len(log) :
             log[i].key # log[j].key => log[i].type # log[j].type)

\* List(int) was called, then Map(int, int), then List(int) again: both keys are
\* in the cache, bound to the two type objects that the first two calls made
C24_Witness ==
    /\ Len(log) >= 3
    /\ log[1].key = ListKey(1)
    /\ log[2].key = MapKey(1, 1)
    /\ log[3].key = ListKey(1)
    /\ DOMAIN _generic_cache = {ListKey(1), MapKey(1, 1)}
    /\ _generic_cache[ListKey(1)] = log[1].type
    /\ _generic_cache[MapKey(1, 1)] = log[2].type

(***************************************************************************)
(* C25: in type inference a key is a legal field name exactly when it is a *)
(* string that begins with a letter or an underscore and goes on with      *)
(* letters and digits only.  So a dict whose keys are all legal in this    *)
(* sense becomes a LooseStruct, and a dict none of whose keys is becomes a *)
(* plain dict.                                                             *)
(***************************************************************************)
C25_LegalFieldName ==
    (conv.stage = "done" /\ conv.flat.t = "dict" /\ DOMAIN conv.flat.v # {}) =>
        LET legal == {k \in DOMAIN conv.flat.v :
                         /\ k.t = "str"
                         /\ Spell(k.v)[1] \in {"letter", "underscore"}
                         /\ \A i \in 2..Len(Spell(k.v)) : Spell(k.v)[i] \in {"letter", "digit"}}
        IN  /\ legal = DOMAIN conv.flat.v =>
                  conv.result = StructObj("LooseStruct", conv.flat.v)
            /\ legal = {} => conv.result = conv.flat

====
